---- MODULE Spec2Model ----
(***************************************************************************)
(* Model of the terminal chat client (src/chat_client.py, src/main.py).    *)
(*                                                                         *)
(* Two threads share one ChatClient object: the main thread (main() and    *)
(* run_cli) and the receiver thread (_recv_loop).  Every access to the     *)
(* shared fields _connected, _current_target and _target_stack happens     *)
(* inside one `with self._lock:` block, so each such block is one atomic   *)
(* step of the model; the steps of the two threads interleave freely.      *)
(*                                                                         *)
(* Text is modelled as a sequence of one-character strings, so that        *)
(* strip(), startswith(), split() and the `in` test are computed on the    *)
(* characters as the Python code computes them.                            *)
(***************************************************************************)
EXTENDS Integers, Sequences, FiniteSets, TLC

\* ------------------------------------------------------------------ bounds

\* Most target switches (pushes on the history stack) one run performs.
MaxSwitches == 2

\* Longest receive buffer (characters) the receiver is handed.
MaxBuffer == 26

\* ------------------------------------------------------------------- text

\* Python's None; no text equals it (every element of a text is one character).
None == <<"None">>

\* `if x:` / `if not x:` on an Optional[str].
Truthy(x) == x /= None /\ x /= <<>>

\* Characters str.strip() removes.
Whitespace == {" ", "\n", "\t", "\r"}

\* Bytes that are not valid UTF-8; decode(errors="ignore") drops them.
BadByte == "<ff>"

RECURSIVE LStrip(_)
LStrip(s) ==
    IF s /= <<>> /\ Head(s) \in Whitespace THEN LStrip(Tail(s)) ELSE s

RECURSIVE RStrip(_)
RStrip(s) ==
    IF s /= <<>> /\ s[Len(s)] \in Whitespace
    THEN RStrip(SubSeq(s, 1, Len(s) - 1))
    ELSE s

\* str.strip()
Strip(s) == RStrip(LStrip(s))

\* The two bytes of a two-byte UTF-8 character, and the character they
\* encode together.
LeadByte == "<c3>"
ContByte == "<a9>"
TwoByteChar == "<e9>"

\* bytes.decode("utf-8", errors="ignore"): a lead byte with its continuation
\* byte is one character; an invalid byte, a lead byte without continuation
\* and a continuation byte on its own are dropped.
RECURSIVE Decode(_)
Decode(data) ==
    IF data = <<>> THEN <<>>
    ELSE IF Head(data) = LeadByte
    THEN IF Len(data) >= 2 /\ data[2] = ContByte
         THEN <<TwoByteChar>> \o Decode(SubSeq(data, 3, Len(data)))
         ELSE Decode(Tail(data))
    ELSE IF Head(data) \in {BadByte, ContByte} THEN Decode(Tail(data))
    ELSE <<Head(data)>> \o Decode(Tail(data))

\* str.startswith(p)
StartsWith(s, p) == Len(s) >= Len(p) /\ SubSeq(s, 1, Len(p)) = p

\* str.endswith(p)
EndsWith(s, p) ==
    Len(s) >= Len(p) /\ SubSeq(s, Len(s) - Len(p) + 1, Len(s)) = p

\* `p in s`
Contains(s, p) ==
    \E i \in 1..(Len(s) - Len(p) + 1) : SubSeq(s, i, i + Len(p) - 1) = p

\* Index of the first occurrence of character c in s, 0 when there is none.
Find(s, c) ==
    IF \E i \in 1..Len(s) : s[i] = c
    THEN CHOOSE i \in 1..Len(s) : s[i] = c /\ \A j \in 1..(i - 1) : s[j] /= c
    ELSE 0

\* s.split(c, 1) when c occurs in s: the text before and after the first c.
SplitOnce(s, c) ==
    [head |-> SubSeq(s, 1, Find(s, c) - 1),
     rest |-> SubSeq(s, Find(s, c) + 1, Len(s))]

\* str.upper() / str.lower() on the letters the commands use.
UpperOf(c) ==
    CASE c = "e" -> "E" [] c = "n" -> "N" [] c = "d" -> "D" [] c = "t" -> "T"
      [] c = "o" -> "O" [] c = "x" -> "X" [] c = "i" -> "I" [] c = "q" -> "Q"
      [] c = "u" -> "U" [] c = "h" -> "H" [] OTHER -> c

LowerOf(c) ==
    CASE c = "E" -> "e" [] c = "N" -> "n" [] c = "D" -> "d" [] c = "T" -> "t"
      [] c = "O" -> "o" [] c = "X" -> "x" [] c = "I" -> "i" [] c = "Q" -> "q"
      [] c = "U" -> "u" [] c = "H" -> "h" [] c = "A" -> "a" [] c = "B" -> "b"
      [] OTHER -> c

Upper(s) == [i \in 1..Len(s) |-> UpperOf(s[i])]
Lower(s) == [i \in 1..Len(s) |-> LowerOf(s[i])]

\* str.split(maxsplit=2) on whitespace: at most two words and the remainder.
RECURSIVE SplitWs(_, _)
SplitWs(s, maxsplit) ==
    LET t == LStrip(s) IN
    IF t = <<>> THEN <<>>
    ELSE IF maxsplit = 0 THEN <<RStrip(t)>>
    ELSE LET ws  == {i \in 1..Len(t) : t[i] \in Whitespace}
             cut == IF ws = {} THEN Len(t) + 1
                    ELSE CHOOSE i \in ws : \A j \in ws : i <= j
         IN  <<SubSeq(t, 1, cut - 1)>>
                 \o SplitWs(SubSeq(t, cut, Len(t)), maxsplit - 1)

\* Protocol literals.
NL == <<"\n">>
SP == <<" ">>
QUOTE == "'"
HELLO_ == <<"H", "E", "L", "L", "O", " ">>
OK_ == <<"O", "K">>
ERR_ == <<"E", "R", "R">>
SERVER_FULL == <<"S", "e", "r", "v", "e", "r", " ", "f", "u", "l", "l">>
FROM_ == <<"F", "R", "O", "M", " ">>
SYS_END_ == <<"S", "Y", "S", " ", "E", "N", "D", " ">>
ERR_USER_ == <<"E", "R", "R", " ", "U", "s", "e", "r", " ", "'">>
NOT_FOUND == <<"'", " ", "n", "o", "t", " ", "f", "o", "u", "n", "d">>
DISCONNECTED ==
    <<"'", " ", "d", "i", "s", "c", "o", "n", "n", "e", "c", "t", "e", "d">>
END_ == <<"E", "N", "D">>
TO_ == <<"T", "O", " ">>
EXIT_ == <<"e", "x", "i", "t">>
QUIT_ == <<"q", "u", "i", "t">>


\* ----------------------------------------------------------------- inputs

A == <<"A">>
B == <<"B">>
C == <<"C">>

\* What the user types at "Enter client name:" (main.py 31, 38, 55).
NameInputs == {<<>>, <<" ">>, <<" ", "A", " ">>}

\* What the user types at the run_cli prompt (chat_client.py 509).
UserInputs ==
    { <<>>, <<" ">>, EXIT_, <<"Q", "U", "I", "T">>, END_, <<"e", "n", "d">>,
      TO_ \o A, <<"t", "o", " ">> \o B, TO_ \o C \o SP,
      TO_ \o A \o <<" ", "h", "i">>, <<"h", "i">> }

\* A full line "SYS END <n>", "ERR User '<n>' not found", ... as the server
\* writes it.
SysEndLine(n) == SYS_END_ \o n
NotFoundLine(n) == ERR_USER_ \o n \o NOT_FOUND
DisconnectedLine(n) == ERR_USER_ \o n \o DISCONNECTED
FromLine(n) == FROM_ \o n \o <<" ", "h", "i">>

\* Chunks sock.recv(1024) hands the receiver: whole lines, a line with an
\* undecodable byte, two lines at once, an empty line, a line cut in two, a
\* malformed unavailable-user line, and lines no pattern matches.
RecvChunks ==
    UNION { { SysEndLine(n) \o NL, NotFoundLine(n) \o NL, FromLine(n) \o NL } :
            n \in {A, B} }
    \cup { DisconnectedLine(A) \o NL,
           SYS_END_ \o <<BadByte>> \o A \o NL,
           SysEndLine(A) \o NL \o SysEndLine(B) \o NL,
           NL,
           <<"E", "R", "R", " ", "U", "s", "e", "r", " ", "'", "A", "'", " ", "n", "o", "t">>,
           <<" ", "f", "o", "u", "n", "d", "\n">>,
           ERR_USER_ \o NOT_FOUND \o NL,
           ERR_USER_ \o A \o <<" ", "g", "o", "n", "e">> \o NL,
           <<"S", "E", "N", "T">> \o NL,
           <<"S", "Y", "S", " ", "E", "N", "D">> \o NL }

\* What the one sock.recv(1024) of the handshake returns: a reply, or b"" when
\* the server has closed the connection.
HandshakeReplies ==
    { OK_ \o <<" ", "h", "i">> \o NL,
      ERR_ \o <<" ", "t", "a", "k", "e", "n">> \o NL,
      ERR_ \o SP \o SERVER_FULL \o NL,
      <<"H", "I">> \o NL,
      <<>> }

\* A handshake reply that TCP delivers in two pieces: the first recv returns
\* `data`, `rest` stays in the socket for the next recv.
HandshakeSplitReplies ==
    { [data |-> OK_ \o <<" ", "h">>, rest |-> <<"i">> \o NL],
      [data |-> ERR_ \o <<" ", "t">>, rest |-> <<"a", "k", "e", "n">> \o NL] }

\* What handshake's sock.recv(1024) can return: bytes left in the socket come
\* first; otherwise a whole reply, end-of-stream, or the first piece of one.
HandshakeReads(left) ==
    IF left /= <<>>
    THEN {[data |-> left, rest |-> <<>>]}
    ELSE {[data |-> d, rest |-> <<>>] : d \in HandshakeReplies}
         \cup HandshakeSplitReplies

\* ------------------------------------------------------------------ state

VARIABLES
    connected,       \* self._connected
    current_target,  \* self._current_target (None or a text)
    target_stack,    \* self._target_stack
    name,            \* self.name
    sock,            \* self.sock: "created", "open" or "closed"
    mpc,             \* where the main thread is (main(), run_cli and callees)
    rpc,             \* where the receiver thread is (_recv_loop)
    buffer,          \* _recv_loop's local `buffer`
    line,            \* _recv_loop's local `line`
    m_name,          \* main()'s local `name`
    target,          \* local `target` of end_current_chat / send_to_current
    arg,             \* argument of the ChatClient method run_cli is calling
    out,             \* texts the method being run has written to the socket
    ret,             \* what the last ChatClient method returned
    switches,        \* open_chat calls so far that displaced a different target
    pre_open,        \* session state as the last open_chat found it
    pre_end,         \* session state as the running end_current_chat read it
    pre_recv,        \* session state as the receiver's last dispatch found it
    op,              \* the ChatClient method run_cli is calling, if any
    reply_data,      \* what handshake's sock.recv returned (None: nothing yet)
    closes,          \* calls of close() completed so far
    holds,           \* the threads inside a `with self._lock:` block
    torn,            \* the thread half-way through a stack-and-target update
    lpc,             \* per thread: the locked block it runs and where it is
    lop,             \* per thread: the name the locked block is about
    lval,            \* per thread: the local `prev` / `back_to`
    pending,         \* bytes of a handshake reply that are still in the socket
    fed,             \* all bytes the receiver's recv calls have returned, in order
    got              \* the lines the receiver has dispatched, in order

vars == <<connected, current_target, target_stack, name, sock, mpc, rpc,
          buffer, line, m_name, target, arg, out, ret, switches, pre_open,
          pre_end, pre_recv, op, reply_data, closes, holds, torn, lpc, lop,
          lval, pending, fed, got>>

shared == <<connected, current_target, target_stack>>
lock_state == <<holds, torn, lpc, lop, lval>>
framer_state == <<fed, got>>

\* The two threads of a client.
Threads == {"main", "recv"}
recv_locals == <<rpc, buffer, line>>

NoSnap == [valid |-> FALSE, cur |-> None, stack |-> <<>>, x |-> None]
Snap(x) ==
    [valid |-> TRUE, cur |-> current_target, stack |-> target_stack, x |-> x]

\* ChatClient.__init__, and main() about to call connect().
Init ==
    /\ connected = FALSE
    /\ current_target = None
    /\ target_stack = <<>>
    /\ name = <<>>
    /\ sock = "created"
    /\ mpc = "connect"
    /\ rpc = "idle"
    /\ buffer = <<>>
    /\ line = <<>>
    /\ m_name = <<>>
    /\ target = None
    /\ arg = <<>>
    /\ out = <<>>
    /\ ret = "None"
    /\ switches = 0
    /\ pre_open = NoSnap
    /\ pre_end = NoSnap
    /\ pre_recv = NoSnap
    /\ op = "None"
    /\ reply_data = None
    /\ closes = 0
    /\ holds = {}
    /\ torn = "none"
    /\ lpc = [t \in Threads |-> [op |-> "new", at |-> "idle"]]
    /\ lop = [t \in Threads |-> None]
    /\ lval = [t \in Threads |-> None]
    /\ pending = <<>>
    /\ fed = <<>>
    /\ got = <<>>

\* ---------------------------------------------------- session transitions

\* Variant: only the flag is cleared, the chat state is kept.
SetDisconnectedFlagOnly ==
    /\ connected' = FALSE
    /\ UNCHANGED <<current_target, target_stack>>

\* _set_disconnected
SetDisconnected ==
    /\ connected' = FALSE
    /\ current_target' = None
    /\ target_stack' = <<>>

\* sock.sendall: it raises once the socket is closed, and may raise or not on
\* an open one (the peer may be gone).
SendOutcomes == IF sock = "open" THEN {TRUE, FALSE} ELSE {FALSE}

Last(s) == s[Len(s)]
Front(s) == SubSeq(s, 1, Len(s) - 1)

\* Variant: the previous target is saved even when it is the one reopened.
OpenChatPushesAnyPrev(prev, t) == Truthy(prev)

\* open_chat's test for saving the previous target.
OpenChatPushes(prev, t) == Truthy(prev) /\ prev /= t

\* open_chat's locked block: the session after switching to t.
OpenChatState(cur, stack, t) ==
    [cur |-> t,
     stack |-> IF OpenChatPushes(cur, t) THEN Append(stack, cur) ELSE stack]

\* end_current_chat's test for "no active chat".
NoActiveChatNever(t) == FALSE

NoActiveChat(t) == ~Truthy(t)

\* Variant: the chat is closed without returning to the previous target.
EndRestoreStateClear(cur, stack) == [cur |-> None, stack |-> stack]

\* Variant: the oldest saved target is restored instead of the newest.
EndRestoreStateOldest(cur, stack) ==
    IF stack /= <<>>
    THEN [cur |-> Head(stack), stack |-> Tail(stack)]
    ELSE [cur |-> None, stack |-> stack]

\* end_current_chat's second locked block.
EndRestoreState(cur, stack) ==
    IF stack /= <<>>
    THEN [cur |-> Last(stack), stack |-> Front(stack)]
    ELSE [cur |-> None, stack |-> stack]

\* Variant: the current chat is closed without returning to the previous one.
SysEndStateClear(cur, stack, sender) ==
    IF cur = sender
    THEN [cur |-> None, stack |-> stack]
    ELSE [cur |-> cur, stack |-> stack]

\* Variant: the sender is not compared with the current target.
SysEndStateAnySender(cur, stack, sender) ==
    IF stack /= <<>>
    THEN [cur |-> Last(stack), stack |-> Front(stack)]
    ELSE [cur |-> None, stack |-> stack]

\* The locked block of the receiver's "SYS END <sender>" handling.
SysEndState(cur, stack, sender) ==
    IF cur = sender
    THEN IF stack /= <<>>
         THEN [cur |-> Last(stack), stack |-> Front(stack)]
         ELSE [cur |-> None, stack |-> stack]
    ELSE [cur |-> cur, stack |-> stack]

\* Variant: the whole history is dropped when the target is unavailable.
UnavailableStateDropAll(cur, stack, user) ==
    IF cur = user
    THEN [cur |-> None, stack |-> <<>>]
    ELSE [cur |-> cur, stack |-> stack]

\* The locked block of the receiver's unavailable-user handling.
UnavailableState(cur, stack, user) ==
    IF cur = user
    THEN IF stack /= <<>>
         THEN [cur |-> Last(stack), stack |-> Front(stack)]
         ELSE [cur |-> None, stack |-> stack]
    ELSE [cur |-> cur, stack |-> stack]

\* Variant: an incoming message opens the chat with its sender.
FromStateAutoSwitch(cur, stack, sender) == OpenChatState(cur, stack, sender)

\* The receiver's "FROM <sender> <text>" handling: a notice, no state change.
FromState(cur, stack, sender) == [cur |-> cur, stack |-> stack]

\* parts[1].strip() if len(parts) >= 2 else "", parts = line.split(" ", 2)
FromSender(ln) ==
    LET rest == SubSeq(ln, Find(ln, " ") + 1, Len(ln))
        word == IF Find(rest, " ") = 0 THEN rest ELSE SplitOnce(rest, " ").head
    IN  IF Find(ln, " ") = 0 THEN <<>> ELSE Strip(word)

\* line[len("SYS END "):].strip()
SysEndSender(ln) == Strip(SubSeq(ln, Len(SYS_END_) + 1, Len(ln)))

\* The unavailable-user pattern.
IsUnavailable(ln) ==
    StartsWith(ln, ERR_USER_)
        /\ (Contains(ln, NOT_FOUND) \/ Contains(ln, DISCONNECTED))

\* line.split("'", 2)[1], None when that raises.
UnavailableUser(ln) ==
    IF Find(ln, QUOTE) = 0 THEN None
    ELSE LET rest == SplitOnce(ln, QUOTE).rest
         IN  IF Find(rest, QUOTE) = 0 THEN rest
             ELSE SplitOnce(rest, QUOTE).head

\* The body of _recv_loop's inner loop for one stripped, non-empty line: the
\* session state it leaves.
DispatchState(cur, stack, ln) ==
    LET s1 == IF StartsWith(ln, FROM_) /\ Truthy(FromSender(ln))
              THEN FromState(cur, stack, FromSender(ln))
              ELSE [cur |-> cur, stack |-> stack]
    IN  IF StartsWith(ln, SYS_END_)
        THEN SysEndState(s1.cur, s1.stack, SysEndSender(ln))
        ELSE IF IsUnavailable(ln) /\ Truthy(UnavailableUser(ln))
             THEN UnavailableState(s1.cur, s1.stack, UnavailableUser(ln))
             ELSE s1

\* ------------------------------------------------- main thread: main()

\* main.py 24-26 and ChatClient.connect.
Connect ==
    /\ UNCHANGED lock_state
    /\ UNCHANGED <<pending, framer_state>>
    /\ mpc = "connect"
    /\ \E ok \in BOOLEAN :
        IF ok
        THEN /\ sock' = "open"
             /\ connected' = TRUE
             /\ ret' = "True"
             /\ mpc' = "ask_name"
        ELSE /\ ret' = "False"
             /\ mpc' = "exited"
             /\ UNCHANGED <<sock, connected>>
    /\ UNCHANGED <<current_target, target_stack, name, pre_recv, recv_locals, m_name, op,
                   target, arg, out, switches, pre_open, pre_end,
                   reply_data, closes>>

\* main.py 31, 37-41, 55: read a name, strip it, ask again while it is empty.
AskName ==
    /\ UNCHANGED lock_state
    /\ UNCHANGED <<pending, framer_state>>
    /\ mpc = "ask_name"
    /\ \E raw \in NameInputs :
        /\ m_name' = Strip(raw)
        /\ mpc' = IF Strip(raw) = <<>> THEN "ask_name" ELSE "handshake"
    /\ UNCHANGED <<shared, name, pre_recv, sock, recv_locals, target, arg, out,
                   ret, switches, pre_open, pre_end, op,
                   reply_data, closes>>

\* Variant: the empty name is not rejected locally.
NameIsEmptyNever(n) == FALSE

\* handshake's test for an empty name (line 112).
NameIsEmpty(n) == ~Truthy(n)

\* handshake, lines 108-119: strip and validate the name, send HELLO.
HandshakeSend ==
    /\ UNCHANGED lock_state
    /\ UNCHANGED <<pending, framer_state>>
    /\ mpc = "handshake"
    /\ arg' = Strip(m_name)
    /\ reply_data' = None
    /\ IF NameIsEmpty(Strip(m_name))
       THEN /\ ret' = "RETRY"
            /\ mpc' = "ask_name"
            /\ out' = <<>>
            /\ UNCHANGED shared
       ELSE \E ok \in SendOutcomes :
            IF ok
            THEN /\ out' = <<HELLO_ \o Strip(m_name) \o NL>>
                 /\ mpc' = "hs_recv"
                 /\ UNCHANGED <<shared, ret>>
            ELSE /\ SetDisconnected
                 /\ out' = <<>>
                 /\ ret' = "EXIT"
                 /\ mpc' = "exited"
    /\ UNCHANGED <<name, pre_recv, sock, recv_locals, m_name, op, target, switches,
                   pre_open, pre_end,
                   closes>>

\* handshake, lines 122-129: sock.recv raises OSError.
HandshakeRecvError ==
    /\ UNCHANGED lock_state
    /\ UNCHANGED <<pending, framer_state>>
    /\ mpc = "hs_recv"
    /\ SetDisconnected
    /\ reply_data' = None
    /\ ret' = "EXIT"
    /\ mpc' = "exited"
    /\ UNCHANGED <<name, pre_recv, sock, recv_locals, m_name, op, target, arg, out,
                   switches, pre_open, pre_end,
                   closes>>

\* Variant: the ERR test comes before the "Server full" test.
HandshakeStatusErrFirst(reply) ==
    IF StartsWith(reply, ERR_) THEN "RETRY"
    ELSE IF Contains(reply, SERVER_FULL) THEN "EXIT"
    ELSE IF StartsWith(reply, OK_) THEN "OK"
    ELSE "RETRY"

\* What handshake returns for a reply (lines 136-151).
HandshakeStatus(reply) ==
    IF Contains(reply, SERVER_FULL) THEN "EXIT"
    ELSE IF StartsWith(reply, ERR_) THEN "RETRY"
    ELSE IF StartsWith(reply, OK_) THEN "OK"
    ELSE "RETRY"

\* main.py 44-55: what main() does with handshake's result.
AfterHandshake(status) ==
    CASE status = "OK" -> "start_receiver"
      [] status = "EXIT" -> "exited"
      [] OTHER -> "ask_name"

\* handshake, lines 122-151: sock.recv returns, the reply is classified.
\* close() on "Server full" runs with no receiver thread started yet.
HandshakeReply ==
    /\ UNCHANGED lock_state
    /\ UNCHANGED framer_state
    /\ mpc = "hs_recv"
    /\ \E r \in HandshakeReads(pending) :
        LET data == r.data
            reply == Strip(Decode(data))
            status == HandshakeStatus(reply)
        IN  /\ ret' = status
            /\ reply_data' = data
            /\ pending' = r.rest
            /\ IF Contains(reply, SERVER_FULL)
               THEN /\ sock' = "closed"
                    /\ SetDisconnected
                    /\ closes' = closes + 1
               ELSE UNCHANGED <<sock, shared, closes>>
            /\ name' = IF status = "OK" THEN arg ELSE name
            /\ mpc' = AfterHandshake(status)
    /\ UNCHANGED <<recv_locals, m_name, op, target, arg, out, switches,
                   pre_open, pre_end, pre_recv>>

\* main.py 58 and start_receiver.
StartReceiver ==
    /\ UNCHANGED lock_state
    /\ UNCHANGED <<pending, framer_state>>
    /\ mpc = "start_receiver"
    /\ rpc = "idle"
    /\ rpc' = "recv"
    /\ mpc' = "cli_check"
    /\ reply_data' = None
    /\ UNCHANGED <<shared, name, pre_recv, sock, buffer, line, m_name, op, target, arg,
                   out, ret, switches, pre_open, pre_end, closes>>

\* ------------------------------------------------ main thread: run_cli

\* The method run_cli called has returned and its result has been used: its
\* locals, its result and the record of what it sent are gone.
CallDone ==
    /\ target' = None
    /\ arg' = <<>>
    /\ out' = <<>>
    /\ ret' = "None"
    /\ op' = "None"

\* Variant: the loop does not look at the connected flag.
IsConnectedAlways(c) == TRUE

\* What is_connected returns for the flag it reads (lines 327-328).
IsConnectedResult(c) == c

\* run_cli 500-502 and is_connected.
IsConnected ==
    /\ UNCHANGED lock_state
    /\ UNCHANGED <<pending, framer_state>>
    /\ mpc = "cli_check"
    /\ mpc' = IF IsConnectedResult(connected) THEN "cli_prompt" ELSE "close"
    /\ CallDone
    /\ pre_open' = IF op = "open_chat" THEN pre_open ELSE NoSnap
    /\ UNCHANGED <<shared, name, pre_recv, sock, recv_locals, m_name,
                   switches, pre_end,
                   reply_data, closes>>

\* run_cli 505-506 and get_current_target.
GetCurrentTarget ==
    /\ UNCHANGED lock_state
    /\ UNCHANGED <<pending, framer_state>>
    /\ mpc = "cli_prompt"
    /\ mpc' = "cli_input"
    /\ UNCHANGED <<shared, name, pre_recv, sock, recv_locals, m_name, op, target, arg,
                   out, ret, switches, pre_open, pre_end,
                   reply_data, closes>>

\* Which branch of run_cli 509-545 a typed line takes.
Command(user_input) ==
    LET u == Strip(user_input)
        parts == SplitWs(u, 2)
    IN  IF ~Truthy(u) THEN [op |-> "continue", arg |-> <<>>]
        ELSE IF Lower(u) \in {EXIT_, QUIT_} THEN [op |-> "break", arg |-> <<>>]
        ELSE IF Upper(u) = END_ THEN [op |-> "end_current_chat", arg |-> <<>>]
        ELSE IF StartsWith(Upper(u), TO_)
             THEN IF Len(parts) = 2
                  THEN IF ~Truthy(Strip(parts[2]))
                       THEN [op |-> "continue", arg |-> <<>>]
                       ELSE [op |-> "open_chat", arg |-> Strip(parts[2])]
                  ELSE [op |-> "send_one_off", arg |-> u]
        ELSE [op |-> "send_to_current", arg |-> u]

\* run_cli 509-545: read a line and pick the method to call.
CliInput ==
    /\ UNCHANGED lock_state
    /\ UNCHANGED <<pending, framer_state>>
    /\ mpc = "cli_input"
    /\ \E user_input \in UserInputs :
        LET c == Command(user_input)
        IN  /\ c.op = "open_chat" => switches < MaxSwitches
            /\ arg' = c.arg
            /\ mpc' = CASE c.op = "continue" -> "cli_check"
                        [] c.op = "break" -> "close"
                        [] c.op = "end_current_chat" -> "end_read"
                        [] c.op = "open_chat" -> "open_chat"
                        [] c.op = "send_one_off" -> "send_one_off"
                        [] OTHER -> "send_to_current"
            /\ op' = IF c.op \in {"continue", "break"} THEN "None" ELSE c.op
            /\ pre_open' = IF c.op = "end_current_chat" THEN pre_open
                           ELSE NoSnap
    /\ out' = <<>>
    /\ ret' = "None"
    /\ UNCHANGED <<shared, name, pre_recv, sock, recv_locals, m_name, target, switches,
                   pre_end,
                   reply_data, closes>>

\* open_chat.
OpenChat ==
    /\ UNCHANGED lock_state
    /\ UNCHANGED <<pending, framer_state>>
    /\ mpc = "open_chat"
    /\ LET t == Strip(arg)
           s == OpenChatState(current_target, target_stack, t)
       IN  IF ~Truthy(t)
           THEN UNCHANGED <<current_target, target_stack, switches>>
           ELSE /\ current_target' = s.cur
                /\ target_stack' = s.stack
                /\ switches' =
                       IF Truthy(current_target) /\ current_target /= t
                       THEN switches + 1 ELSE switches
    /\ pre_open' = Snap(arg)
    /\ ret' = "None"
    /\ mpc' = "cli_check"
    /\ UNCHANGED <<connected, name, pre_recv, sock, recv_locals, m_name, op, target, arg,
                   out, pre_end,
                   reply_data, closes>>

\* end_current_chat, lines 381-388: read the target; nothing to end if none.
EndRead ==
    /\ UNCHANGED lock_state
    /\ UNCHANGED <<pending, framer_state>>
    /\ mpc = "end_read"
    /\ target' = current_target
    /\ IF NoActiveChat(current_target)
       THEN /\ ret' = "True"
            /\ mpc' = "cli_check"
            /\ pre_end' = NoSnap
            /\ pre_open' = NoSnap
       ELSE /\ mpc' = "end_send"
            /\ pre_end' = Snap(current_target)
            /\ UNCHANGED <<ret, pre_open>>
    /\ UNCHANGED <<shared, name, pre_recv, sock, recv_locals, m_name, op, arg, out,
                   switches,
                   reply_data, closes>>

\* end_current_chat, lines 392-393: _safe_send("END <target>\n").
EndSend ==
    /\ UNCHANGED lock_state
    /\ UNCHANGED <<pending, framer_state>>
    /\ mpc = "end_send"
    /\ \E ok \in SendOutcomes :
        IF ok
        THEN /\ out' = Append(out, END_ \o SP \o target \o NL)
             /\ mpc' = "end_restore"
             /\ UNCHANGED <<shared, ret, pre_open, pre_end>>
        ELSE /\ SetDisconnected
             /\ ret' = "False"
             /\ mpc' = "close"
             /\ pre_open' = NoSnap
             /\ pre_end' = NoSnap
             /\ out' = out
    /\ UNCHANGED <<name, pre_recv, sock, recv_locals, m_name, op, target, arg, switches,
                   reply_data, closes>>

\* end_current_chat, lines 397-406: return to the previous target, if any.
EndRestore ==
    /\ UNCHANGED lock_state
    /\ UNCHANGED <<pending, framer_state>>
    /\ mpc = "end_restore"
    /\ LET s == EndRestoreState(current_target, target_stack)
       IN  current_target' = s.cur /\ target_stack' = s.stack
    /\ ret' = "True"
    /\ mpc' = "cli_check"
    /\ pre_end' = NoSnap
    /\ UNCHANGED <<connected, name, pre_recv, sock, recv_locals, m_name, op,
                   target, arg, out, switches, pre_open,
                   reply_data, closes>>

\* send_to_current, lines 427-433: read the target; no send if none.
SendToCurrentRead ==
    /\ UNCHANGED lock_state
    /\ UNCHANGED <<pending, framer_state>>
    /\ mpc = "send_to_current"
    /\ target' = current_target
    /\ IF ~Truthy(current_target)
       THEN ret' = "True" /\ mpc' = "cli_check"
       ELSE ret' = ret /\ mpc' = "send_to_current_send"
    /\ UNCHANGED <<shared, name, pre_recv, sock, recv_locals, m_name, op, arg, out,
                   switches, pre_open, pre_end,
                   reply_data, closes>>

\* Variant: the message is sent without its addressee.
ToLineNoTarget(t, message) == TO_ \o message \o NL

\* The line send_to_current builds (line 436).
ToLine(t, message) == TO_ \o t \o SP \o message \o NL

\* send_to_current, line 436: _safe_send("TO <target> <message>\n").
SendToCurrentSend ==
    /\ UNCHANGED lock_state
    /\ UNCHANGED <<pending, framer_state>>
    /\ mpc = "send_to_current_send"
    /\ \E ok \in SendOutcomes :
        IF ok
        THEN /\ out' = Append(out, ToLine(target, arg))
             /\ ret' = "True"
             /\ mpc' = "cli_check"
             /\ UNCHANGED shared
        ELSE /\ SetDisconnected
             /\ ret' = "False"
             /\ mpc' = "close"
             /\ out' = out
    /\ UNCHANGED <<name, pre_recv, sock, recv_locals, m_name, op, target, arg, switches,
                   pre_open, pre_end,
                   reply_data, closes>>

\* Variant: the line is sent as given, with no newline added.
OneOffLineAsGiven(raw_to_command) == raw_to_command

\* The line send_one_off sends (lines 452-453).
OneOffLine(raw_to_command) ==
    IF EndsWith(raw_to_command, NL) THEN raw_to_command
    ELSE raw_to_command \o NL

\* send_one_off: append the newline if missing, _safe_send the line.
SendOneOff ==
    /\ UNCHANGED lock_state
    /\ UNCHANGED <<pending, framer_state>>
    /\ mpc = "send_one_off"
    /\ \E ok \in SendOutcomes :
        IF ok
        THEN /\ out' = Append(out, OneOffLine(arg))
             /\ ret' = "True"
             /\ mpc' = "cli_check"
             /\ UNCHANGED shared
        ELSE /\ SetDisconnected
             /\ ret' = "False"
             /\ mpc' = "close"
             /\ out' = out
    /\ UNCHANGED <<name, pre_recv, sock, recv_locals, m_name, op, target, arg, switches,
                   pre_open, pre_end,
                   reply_data, closes>>

\* close, lines 464-467 (run_cli 548): sock.close().
CloseSocket ==
    /\ UNCHANGED lock_state
    /\ UNCHANGED <<pending, framer_state>>
    /\ mpc = "close"
    /\ sock' = "closed"
    /\ mpc' = "close_state"
    /\ CallDone
    /\ UNCHANGED <<shared, name, pre_recv, recv_locals, m_name, switches, pre_open,
                   pre_end,
                   reply_data, closes>>

\* Variant: close() releases the socket and leaves the session state alone.
CloseStateKeepsSession ==
    /\ UNCHANGED lock_state
    /\ UNCHANGED <<pending, framer_state>>
    /\ mpc = "close_state"
    /\ closes' = closes + 1
    /\ ret' = "None"
    /\ mpc' = "exited"
    /\ UNCHANGED <<shared, name, pre_recv, sock, recv_locals, m_name, op, target,
                   arg, out, switches, pre_open, pre_end, reply_data>>

\* Variant: close() clears the flag and keeps the chat state.
CloseStateFlagOnly ==
    /\ UNCHANGED lock_state
    /\ UNCHANGED <<pending, framer_state>>
    /\ mpc = "close_state"
    /\ connected' = FALSE
    /\ closes' = closes + 1
    /\ ret' = "None"
    /\ mpc' = "exited"
    /\ UNCHANGED <<current_target, target_stack, name, pre_recv, sock,
                   recv_locals, m_name, op, target, arg, out, switches,
                   pre_open, pre_end, reply_data>>

\* close, line 470: _set_disconnected(); run_cli and main() return.
CloseState ==
    /\ UNCHANGED lock_state
    /\ UNCHANGED <<pending, framer_state>>
    /\ mpc = "close_state"
    /\ SetDisconnected
    /\ closes' = closes + 1
    /\ ret' = "None"
    /\ mpc' = "exited"
    /\ UNCHANGED <<name, pre_recv, sock, recv_locals, m_name, op, target, arg, out,
                   switches, pre_open, pre_end,
                   reply_data>>

\* ------------------------------------------------------ receiver thread

\* What the receiver's sock.recv(1024) can return: bytes left in the socket
\* come first.
ReceiverReads(left) == IF left /= <<>> THEN {left} ELSE RecvChunks

\* _recv_loop 225, 239: sock.recv returns bytes, decoded onto the buffer.
RecvData ==
    /\ UNCHANGED lock_state
    /\ UNCHANGED framer_state
    /\ rpc = "recv"
    /\ sock = "open"
    /\ \E data \in ReceiverReads(pending) :
        /\ Len(buffer) + Len(Decode(data)) <= MaxBuffer
        /\ buffer' = buffer \o Decode(data)
    /\ pending' = <<>>
    /\ rpc' = "split"
    /\ UNCHANGED <<shared, name, pre_recv, sock, mpc, line, m_name, op, target, arg, out,
                   ret, switches, pre_open, pre_end,
                   reply_data, closes>>

\* _recv_loop 226-230: sock.recv raises OSError.
RecvError ==
    /\ UNCHANGED lock_state
    /\ UNCHANGED <<pending, framer_state>>
    /\ rpc = "recv"
    /\ SetDisconnected
    /\ rpc' = "done"
    /\ pre_open' = NoSnap
    /\ UNCHANGED <<name, pre_recv, sock, mpc, buffer, line, m_name, op, target, arg, out,
                   ret, switches, pre_end,
                   reply_data, closes>>

\* _recv_loop 232-236: sock.recv returns b"", the server closed.
RecvEOF ==
    /\ UNCHANGED lock_state
    /\ UNCHANGED <<pending, framer_state>>
    /\ rpc = "recv"
    /\ sock = "open"
    /\ pending = <<>>
    /\ SetDisconnected
    /\ rpc' = "done"
    /\ pre_open' = NoSnap
    /\ UNCHANGED <<name, pre_recv, sock, mpc, buffer, line, m_name, op, target, arg, out,
                   ret, switches, pre_end,
                   reply_data, closes>>

\* _recv_loop 242-246: one test of `while "\n" in buffer`; the line before
\* the first newline is taken off the buffer and stripped, an empty one is
\* skipped.
SplitStep ==
    IF Find(buffer, "\n") = 0
    THEN rpc' = "recv" /\ UNCHANGED <<buffer, line>>
    ELSE /\ line' = Strip(SplitOnce(buffer, "\n").head)
         /\ buffer' = SplitOnce(buffer, "\n").rest
         /\ rpc' = IF Strip(SplitOnce(buffer, "\n").head) = <<>>
                   THEN "split" ELSE "dispatch"

\* _recv_loop 242-246: take the next line off the buffer, skip empty ones.
SplitLine ==
    /\ UNCHANGED lock_state
    /\ UNCHANGED <<pending, framer_state>>
    /\ rpc = "split"
    /\ SplitStep
    /\ pre_recv' = NoSnap
    /\ UNCHANGED <<shared, name, sock, mpc, m_name, op, target, arg, out, ret,
                   switches, pre_open, pre_end,
                   reply_data, closes>>

\* _recv_loop 251-315: classify the line and apply its transition.
Dispatch ==
    /\ UNCHANGED lock_state
    /\ UNCHANGED <<pending, framer_state>>
    /\ rpc = "dispatch"
    /\ LET s == DispatchState(current_target, target_stack, line)
       IN  current_target' = s.cur /\ target_stack' = s.stack
    /\ rpc' = "split"
    /\ line' = <<>>
    /\ pre_open' = NoSnap
    /\ pre_recv' = Snap(line)
    /\ UNCHANGED <<connected, name, sock, mpc, buffer, m_name, op, target,
                   arg, out, ret, switches, pre_end,
                   reply_data, closes>>

\* ----------------------------------------------------------- specification

Next ==
    \/ Connect
    \/ AskName
    \/ HandshakeSend
    \/ HandshakeRecvError
    \/ HandshakeReply
    \/ StartReceiver
    \/ IsConnected
    \/ GetCurrentTarget
    \/ CliInput
    \/ OpenChat
    \/ EndRead
    \/ EndSend
    \/ EndRestore
    \/ SendToCurrentRead
    \/ SendToCurrentSend
    \/ SendOneOff
    \/ CloseSocket
    \/ CloseState
    \/ RecvData
    \/ RecvError
    \/ RecvEOF
    \/ SplitLine
    \/ Dispatch

Spec == Init /\ [][Next]_vars

\* The steps of the main thread.
MainNext ==
    \/ Connect
    \/ AskName
    \/ HandshakeSend
    \/ HandshakeRecvError
    \/ HandshakeReply
    \/ StartReceiver
    \/ IsConnected
    \/ GetCurrentTarget
    \/ CliInput
    \/ OpenChat
    \/ EndRead
    \/ EndSend
    \/ EndRestore
    \/ SendToCurrentRead
    \/ SendToCurrentSend
    \/ SendOneOff
    \/ CloseSocket
    \/ CloseState

\* The main thread keeps running: the user keeps typing lines at the prompts
\* and every socket call returns or raises.
FairSpec == Spec /\ WF_vars(MainNext)

\* Most calls of close() one run completes.
MaxCloses == 2

\* A caller other than main(): handshake(name) with the name as typed, not
\* stripped and not checked first.
CallHandshake ==
    /\ UNCHANGED lock_state
    /\ UNCHANGED <<pending, framer_state>>
    /\ mpc = "ask_name"
    /\ \E raw \in NameInputs : m_name' = raw
    /\ mpc' = "handshake"
    /\ UNCHANGED <<shared, name, pre_recv, sock, recv_locals, target, arg, out,
                   ret, switches, pre_open, pre_end, op, reply_data, closes>>

\* A caller other than main(): close() called again after the client stopped.
CloseAgain ==
    /\ UNCHANGED lock_state
    /\ UNCHANGED <<pending, framer_state>>
    /\ mpc = "exited"
    /\ closes < MaxCloses
    /\ mpc' = "close"
    /\ UNCHANGED <<shared, name, pre_recv, sock, recv_locals, m_name, target,
                   arg, out, ret, switches, pre_open, pre_end, op, reply_data,
                   closes>>

\* A caller other than run_cli: send_one_off(raw_to_command) with a line that
\* already ends with its newline.
CallSendOneOff ==
    /\ UNCHANGED lock_state
    /\ UNCHANGED <<pending, framer_state>>
    /\ mpc = "cli_input"
    /\ arg' = TO_ \o A \o <<" ", "h", "i">> \o NL
    /\ op' = "send_one_off"
    /\ mpc' = "send_one_off"
    /\ out' = <<>>
    /\ ret' = "None"
    /\ pre_open' = NoSnap
    /\ UNCHANGED <<shared, name, pre_recv, sock, recv_locals, m_name, target,
                   switches, pre_end, reply_data, closes>>

NextAnyCaller == Next \/ CallHandshake \/ CloseAgain \/ CallSendOneOff

\* The client as main() drives it, or driven by any caller of handshake and
\* close.
SpecAnyCaller == Init /\ [][NextAnyCaller]_vars

\* ------------------------------------------------------------------ claims

TargetNames == {A, B, C}

\* The receiver finishes the dispatch of `line`.
DispatchStep == rpc = "dispatch" /\ rpc' = "split"

\* The target-restore rule, as a relation between a step's two states.
Restored ==
    IF target_stack /= <<>>
    THEN current_target' = Last(target_stack)
             /\ target_stack' = Front(target_stack)
    ELSE current_target' = None /\ target_stack' = <<>>

\* C1: whenever the connected flag is false, the current target is none and
\* the history stack is empty.
C1_DeadSessionHasNoTarget ==
    ~connected => current_target = None /\ target_stack = <<>>

\* C2: open_chat(T), T non-empty: a current target P /= T is pushed and T
\* installed; with no current target T is installed and the stack kept; with
\* P = T nothing changes.  The entry pushed never equals the target installed.
C2_OpenChatSwitchRule ==
    [][(mpc = "open_chat" /\ mpc' /= "open_chat" /\ Truthy(Strip(arg))) =>
        LET T == Strip(arg)
            P == current_target
        IN  /\ (P /= None /\ P /= T) =>
                   /\ target_stack' = Append(target_stack, P)
                   /\ current_target' = T
            /\ P = None =>
                   current_target' = T /\ target_stack' = target_stack
            /\ P = T => UNCHANGED <<current_target, target_stack>>
            /\ target_stack' /= target_stack =>
                   Last(target_stack') /= current_target'
            /\ connected' = connected]_vars

C2_Witness ==
    /\ mpc = "cli_check"
    /\ op = "open_chat"
    /\ pre_open.valid
    /\ pre_open.cur = A
    /\ pre_open.x = B
    /\ current_target = B
    /\ target_stack = Append(pre_open.stack, A)

\* C3: the receiver processing "SYS END N" with N the current target pops the
\* top of the history stack into the current target, or, the stack being
\* empty, sets the current target to none.
C3_SysEndRestores ==
    [][\A n \in TargetNames :
        (DispatchStep /\ line = SysEndLine(n) /\ current_target = n) =>
            Restored /\ connected' = connected]_vars

C3_Witness ==
    /\ pre_recv.valid
    /\ pre_recv.x = SysEndLine(A)
    /\ pre_recv.cur = A
    /\ pre_recv.stack = <<B>>
    /\ current_target = B
    /\ target_stack = <<>>

\* C4: the receiver processing "ERR User '<N>' not found" or "ERR User '<N>'
\* disconnected" with N the current target changes the session exactly as
\* "SYS END N" does: the target-restore rule.
C4_UnavailableAsSysEnd ==
    [][\A n \in TargetNames :
        (DispatchStep /\ line \in {NotFoundLine(n), DisconnectedLine(n)}
             /\ current_target = n) =>
            /\ Restored
            /\ connected' = connected
            /\ current_target' = SysEndState(current_target, target_stack, n).cur
            /\ target_stack' = SysEndState(current_target, target_stack, n).stack
      ]_vars

C4_Witness ==
    /\ pre_recv.valid
    /\ pre_recv.x = NotFoundLine(A)
    /\ pre_recv.cur = A
    /\ pre_recv.stack = <<B, C>>
    /\ current_target = C
    /\ target_stack = <<B>>

\* C5: the receiver processing "SYS END N" or an unavailable-user line for N
\* with N not the current target (none included) leaves the current target,
\* the history stack and the connected flag unchanged.
C5_OtherTargetUntouched ==
    [][\A n \in TargetNames :
        (DispatchStep
             /\ line \in {SysEndLine(n), NotFoundLine(n), DisconnectedLine(n)}
             /\ current_target /= n) =>
            UNCHANGED <<current_target, target_stack, connected>>]_vars

C5_Witness ==
    /\ pre_recv.valid
    /\ pre_recv.x = SysEndLine(B)
    /\ pre_recv.cur = A
    /\ pre_recv.stack = <<B>>
    /\ current_target = A
    /\ target_stack = <<B>>

C7_EndWithoutTargetIsNoOp ==
    [][(mpc = "end_read" /\ mpc' /= "end_read" /\ current_target = None) =>
        /\ mpc' = "cli_check"
        /\ ret' = "True"
        /\ out = <<>> /\ out' = <<>>
        /\ UNCHANGED <<current_target, target_stack, connected>>]_vars

C7_Witness ==
    /\ mpc = "cli_check"
    /\ op = "end_current_chat"
    /\ ret = "True"
    /\ out = <<>>
    /\ connected
    /\ current_target = None
    /\ target_stack = <<>>

\* The main thread finishes a successful end_current_chat that follows an
\* open_chat with no receiver event in between.
EndsRoundTrip ==
    mpc = "end_restore" /\ mpc' = "cli_check" /\ pre_open.valid

\* C8 as stated: for every target X, open_chat(X) immediately followed by a
\* successful end_current_chat restores the current target and the history
\* stack that open_chat(X) found.
C8_RoundTripAnyTarget ==
    [][EndsRoundTrip =>
        /\ current_target' = pre_open.cur
        /\ target_stack' = pre_open.stack]_vars

\* C8 amended: the same, for every target X other than the current target.
C8_RoundTripOtherTarget ==
    [][(EndsRoundTrip /\ pre_open.x /= pre_open.cur) =>
        /\ current_target' = pre_open.cur
        /\ target_stack' = pre_open.stack]_vars

C8_Witness ==
    /\ mpc = "cli_check"
    /\ op = "end_current_chat"
    /\ ret = "True"
    /\ pre_open.valid
    /\ pre_open.x = C
    /\ pre_open.cur = B
    /\ pre_open.stack = <<A>>
    /\ current_target = B
    /\ target_stack = <<A>>

\* A step in which end_current_chat, "SYS END" or the unavailable-user
\* handling may pop the history stack.
PopStep == (mpc = "end_restore" /\ mpc' = "cli_check") \/ DispatchStep

\* C9: the history stack is never longer than the number of open_chat calls
\* that replaced a target by a different one, and every pop removes the newest
\* entry and installs it as the current target.
C9_StackBoundedAndLifo ==
    /\ [](Len(target_stack) <= switches)
    /\ [][(PopStep /\ target_stack' /= target_stack) =>
            /\ target_stack /= <<>>
            /\ target_stack' = Front(target_stack)
            /\ current_target' = Last(target_stack)]_vars

C9_Witness ==
    /\ pre_recv.valid
    /\ pre_recv.stack = <<A, B>>
    /\ Len(pre_recv.stack) = switches
    /\ target_stack = <<A>>
    /\ current_target = B

\* C10: ending the chat with T sends "END T" and restores as one atomic
\* transition: under every interleaving with the receiver, ending T removes
\* at most one entry from the history stack (of a session that stays
\* connected), and no entry is popped on behalf of a target that is no longer
\* current.
C10_EndIsAtomic ==
    [][(mpc = "end_restore" /\ mpc' = "cli_check") =>
        /\ out = <<END_ \o SP \o target \o NL>>
        /\ connected => Len(pre_end.stack) - Len(target_stack') <= 1
        /\ target_stack' /= target_stack => current_target = target]_vars

\* C11: handshake(name) with a name that is empty after trimming whitespace
\* returns RETRY, sends nothing, does not go on to read a reply, and leaves
\* the connected flag, the display name, the current target, the history
\* stack and the socket as they were.
C11_EmptyNameRetriesLocally ==
    [][(mpc = "handshake" /\ Strip(m_name) = <<>>) =>
        /\ ret' = "RETRY"
        /\ out' = <<>>
        /\ mpc' = "ask_name"
        /\ reply_data' = None
        /\ UNCHANGED <<connected, name, current_target, target_stack,
                       sock>>]_vars

C11_Witness ==
    /\ mpc = "ask_name"
    /\ ret = "RETRY"
    /\ m_name = <<" ">>
    /\ arg = <<>>
    /\ reply_data = None
    /\ connected
    /\ name = <<>>

\* The step in which handshake's sock.recv returned a non-empty reply.
ReplyStep == mpc = "hs_recv" /\ reply_data' /= None /\ reply_data' /= <<>>

\* The reply text handshake classifies in that step.
ReplyText == Strip(Decode(reply_data'))

\* C12: for a received handshake reply, a server-full reply closes the
\* socket, marks the session not connected and returns EXIT; any other ERR
\* reply returns RETRY; an OK reply stores the name and returns OK; any other
\* reply returns RETRY. The display name changes only in a handshake step
\* that returns OK.
C12_ReplyClassification ==
    /\ [][ReplyStep =>
            IF Contains(ReplyText, SERVER_FULL)
            THEN /\ ret' = "EXIT"
                 /\ sock' = "closed"
                 /\ ~connected'
                 /\ name' = name
            ELSE IF StartsWith(ReplyText, ERR_)
            THEN /\ ret' = "RETRY"
                 /\ UNCHANGED <<name, sock, connected>>
            ELSE IF StartsWith(ReplyText, OK_)
            THEN /\ ret' = "OK"
                 /\ name' = arg
                 /\ name' = Strip(m_name)
                 /\ UNCHANGED <<sock, connected>>
            ELSE /\ ret' = "RETRY"
                 /\ UNCHANGED <<name, sock, connected>>]_vars
    /\ [][name' /= name => (mpc = "hs_recv" /\ ret' = "OK")]_vars
    /\ [](ret \in {"RETRY", "EXIT"} /\ mpc \in {"ask_name", "exited"}
            => name = <<>>)

C12_Witness ==
    /\ reply_data = ERR_ \o SP \o SERVER_FULL \o NL
    /\ ret = "EXIT"
    /\ sock = "closed"
    /\ ~connected
    /\ name = <<>>

\* The step in which handshake's transport fails: the HELLO line cannot be
\* sent, sock.recv raises, or sock.recv returns end-of-stream.
HandshakeTransportFailure ==
    \/ mpc = "handshake" /\ Strip(m_name) /= <<>> /\ out' = <<>>
    \/ mpc = "hs_recv" /\ reply_data' = None
    \/ mpc = "hs_recv" /\ reply_data' = <<>>

\* C13: every transport failure during the handshake (send failure, receive
\* error, end-of-stream) makes handshake return EXIT and marks the session
\* not connected.
C13_TransportFailureIsFatal ==
    [][HandshakeTransportFailure => (ret' = "EXIT" /\ ~connected')]_vars

\* C13, the failures handshake does treat as fatal: a failed send and a
\* receive error return EXIT with the session marked not connected.
C13_SendAndRecvErrorsAreFatal ==
    [][(HandshakeTransportFailure /\ reply_data' /= <<>>) =>
        (ret' = "EXIT" /\ ~connected' /\ mpc' = "exited")]_vars

\* The step in which _safe_send fails inside end_current_chat,
\* send_to_current or send_one_off: nothing is added to the lines sent.
WriteFailureStep ==
    /\ mpc \in {"end_send", "send_to_current_send", "send_one_off"}
    /\ mpc' /= mpc
    /\ out' = out

\* The command loop has been left: close() is running or has run.
LoopLeft == mpc \in {"close", "close_state", "exited"}

\* C14: a failed write in send_to_current, send_one_off or end_current_chat
\* marks the session not connected with the target cleared and the stack
\* emptied, the method returns False, and run_cli leaves its loop at once:
\* no further prompt, no further command.
C14_WriteFailureEndsLoop ==
    /\ [][WriteFailureStep =>
            /\ ~connected'
            /\ current_target' = None
            /\ target_stack' = <<>>
            /\ ret' = "False"
            /\ mpc' = "close"]_vars
    /\ [][LoopLeft => LoopLeft']_vars

C14_Witness ==
    /\ mpc = "close"
    /\ ret = "False"
    /\ op = "end_current_chat"
    /\ target = A
    /\ switches = MaxSwitches
    /\ ~connected
    /\ current_target = None
    /\ target_stack = <<>>
    /\ rpc = "recv"

\* The receiver's sock.recv returned end-of-stream or raised: the step that
\* leaves the loop of _recv_loop.
ReceiverStops == rpc = "recv" /\ rpc' = "done"

\* C15: when the receiver's read returns end-of-stream or raises, the
\* receiver marks the session not connected and stops for good, never reading
\* again; from then on, with the user supplying input lines, the command loop
\* leaves at its pre-prompt check (if it has not left already) and run_cli
\* terminates.
C15_ReceiverStopEndsClient ==
    /\ [][ReceiverStops =>
            ~connected' /\ current_target' = None /\ target_stack' = <<>>]_vars
    /\ [][rpc = "done" => (rpc' = "done" /\ UNCHANGED <<buffer, line>>)]_vars
    /\ [][(rpc = "done" /\ mpc = "cli_check") => mpc' = "close"]_vars
    /\ (rpc = "done" ~> mpc = "exited")

C15_Witness ==
    /\ rpc = "done"
    /\ mpc = "exited"
    /\ sock = "closed"
    /\ ~connected
    /\ closes = 1
    /\ name = A

\* A handshake has returned OK: only that outcome stores the (non-empty)
\* display name.
HandshakeAccepted == name /= <<>>

\* C16: the connected flag is true only in states where a handshake has
\* already returned OK.
C16_ConnectedOnlyAfterHandshake == connected => HandshakeAccepted

\* A step of send_one_off.
OneOffStep == mpc = "send_one_off" /\ mpc' /= mpc

\* C17 as stated: every call of send_one_off leaves the current target and
\* the history stack as they were.
C17_OneOffNeverTouchesChatState ==
    [][OneOffStep => UNCHANGED <<current_target, target_stack>>]_vars

\* C17: send_one_off sends the caller's line, with a newline appended if it
\* has none, and when that send succeeds the current target, the history
\* stack and the connected flag are as before; when the send fails nothing
\* is sent, the result is False and the session is marked not connected,
\* which clears the target and the stack.
C17_OneOffSendsAndKeepsChatState ==
    [][OneOffStep =>
        IF out' /= out
        THEN /\ Len(out') = Len(out) + 1
             /\ EndsWith(Last(out'), NL)
             /\ \/ Last(out') = arg
                \/ Last(out') = arg \o NL /\ ~EndsWith(arg, NL)
             /\ ret' = "True"
             /\ UNCHANGED <<current_target, target_stack, connected>>
        ELSE /\ ret' = "False"
             /\ ~connected'
             /\ current_target' = None
             /\ target_stack' = <<>>]_vars

C17_Witness ==
    /\ op = "send_one_off"
    /\ mpc = "cli_check"
    /\ ret = "True"
    /\ out = <<TO_ \o A \o <<" ", "h", "i">> \o NL>>
    /\ arg = TO_ \o A \o <<" ", "h", "i">>
    /\ current_target = B
    /\ target_stack = <<C>>
    /\ connected

\* C18: send_to_current with no current target sends nothing, returns True
\* and changes no session state; with a current target T it sends exactly
\* one line "TO T <message>" and, when that send succeeds, returns True and
\* leaves the current target and the history stack unchanged.
C18_SendToCurrent ==
    /\ [][(mpc = "send_to_current" /\ mpc' /= mpc) =>
            IF current_target = None
            THEN /\ ret' = "True"
                 /\ mpc' = "cli_check"
                 /\ out' = <<>>
                 /\ UNCHANGED <<connected, current_target, target_stack,
                                sock, name>>
            ELSE /\ mpc' = "send_to_current_send"
                 /\ target' = current_target
                 /\ out' = <<>>
                 /\ UNCHANGED <<connected, current_target, target_stack,
                                sock, name>>]_vars
    /\ [][(mpc = "send_to_current_send" /\ mpc' /= mpc /\ out' /= out) =>
            /\ out' = <<TO_ \o target \o <<" ">> \o arg \o <<"\n">>>>
            /\ target \in TargetNames
            /\ ret' = "True"
            /\ mpc' = "cli_check"
            /\ UNCHANGED <<connected, current_target, target_stack>>]_vars

C18_Witness ==
    /\ op = "send_to_current"
    /\ mpc = "cli_check"
    /\ ret = "True"
    /\ target = B
    /\ out = <<TO_ \o B \o <<" ", "h", "i">> \o NL>>
    /\ current_target = B
    /\ target_stack = <<A>>

\* The state close() leaves: socket released, not connected, no target, no
\* history.
Closed ==
    /\ sock = "closed"
    /\ ~connected
    /\ current_target = None
    /\ target_stack = <<>>

\* C19: close() can be called once or several times, on a live or on an
\* already broken connection: every call runs to its end and ends in the
\* same state (socket released, not connected, no target, empty history),
\* and a call on a session already in that state changes nothing.
C19_CloseIsIdempotent ==
    /\ [][(mpc = "close" /\ mpc' /= mpc) =>
            (mpc' = "close_state" /\ sock' = "closed")]_vars
    /\ [][(mpc = "close_state" /\ mpc' /= mpc) =>
            (mpc' = "exited" /\ Closed' /\ closes' = closes + 1)]_vars
    /\ [][(Closed /\ mpc \in {"close", "close_state"}) =>
            UNCHANGED <<sock, connected, current_target, target_stack,
                        name>>]_vars
    /\ [](closes >= 1 /\ mpc = "exited" => Closed)

C19_Witness ==
    /\ closes = MaxCloses
    /\ mpc = "exited"
    /\ Closed
    /\ name = A
    /\ rpc = "done"

\* ------------------------------------- the locked blocks, statement by
\* statement: every `with self._lock:` block of ChatClient as acquire, one
\* step per statement that reads or writes _connected, _current_target or
\* _target_stack, release.

\* Everything but the shared fields and the lock.
session_rest ==
    <<name, sock, mpc, rpc, buffer, line, m_name, target, arg, out, ret,
      switches, pre_open, pre_end, pre_recv, op, reply_data, closes,
      pending, fed, got>>

\* The locked blocks the main thread runs: is_connected ("ic"), the target
\* reads of get_current_target, end_current_chat and send_to_current ("rt"),
\* open_chat ("oc"), end_current_chat's restore ("rs"), _set_disconnected
\* ("sd"); connect's block ("cn") comes first.
MainOps == {"ic", "rt", "oc", "rs", "sd"}

\* The locked blocks the receiver runs: the restore of SYS END and of the
\* unavailable-user lines ("rs"), _set_disconnected ("sd").
RecvOps == {"rs", "sd"}

\* The first statement inside each locked block.
FirstAt(o) ==
    CASE o = "cn" -> "write"
      [] o \in {"ic", "rt", "oc"} -> "read"
      [] o = "rs" -> "test"
      [] OTHER -> "flag"

At(t, o, a) == lpc[t].op = o /\ lpc[t].at = a
Goto(t, a) == lpc' = [lpc EXCEPT ![t].at = a]

\* connect() has returned, so handshake and start_receiver can have run.
ConnectDone ==
    /\ lpc["main"].op /= "new"
    /\ ~(lpc["main"].op = "cn" /\ lpc["main"].at /= "idle")

\* A thread reaches a `with self._lock:` statement.
LockBegin(t) ==
    /\ lpc[t].at = "idle"
    /\ t = "recv" => ConnectDone
    /\ \E o \in (IF t = "recv" THEN RecvOps
                 ELSE IF lpc[t].op = "new" THEN {"cn"} ELSE MainOps),
          n \in {A, B, C, None} :
        /\ (n /= None) <=> (o = "oc" \/ (o = "rs" /\ t = "recv"))
        /\ (o = "oc") => (Len(target_stack) < MaxSwitches)
        /\ lpc' = [lpc EXCEPT ![t] = [op |-> o, at |-> "acquire"]]
        /\ lop' = [lop EXCEPT ![t] = n]
    /\ UNCHANGED <<shared, holds, torn, lval, session_rest>>

\* Variant: the lock never makes a thread wait.
LockFreeAlways == TRUE

\* threading.Lock: free when no thread is inside a locked block.
LockFree == holds = {}

\* `with self._lock:` entered.
LockAcquire(t) ==
    /\ lpc[t].at = "acquire"
    /\ LockFree
    /\ holds' = holds \cup {t}
    /\ Goto(t, FirstAt(lpc[t].op))
    /\ UNCHANGED <<shared, torn, lop, lval, session_rest>>

\* The end of a `with self._lock:` block. The receiver's loop ends after
\* _set_disconnected.
LockRelease(t) ==
    /\ lpc[t].at = "release"
    /\ holds' = holds \ {t}
    /\ Goto(t, IF t = "recv" /\ lpc[t].op = "sd" THEN "done" ELSE "idle")
    /\ lop' = [lop EXCEPT ![t] = None]
    /\ lval' = [lval EXCEPT ![t] = None]
    /\ UNCHANGED <<shared, torn, session_rest>>

\* connect, line 85.
ConnectWrite(t) ==
    /\ At(t, "cn", "write")
    /\ connected' = TRUE
    /\ Goto(t, "release")
    /\ UNCHANGED <<current_target, target_stack, holds, torn, lop, lval,
                   session_rest>>

\* is_connected, line 328.
ReadFlag(t) ==
    /\ At(t, "ic", "read")
    /\ lval' = [lval EXCEPT ![t] = IF connected THEN A ELSE None]
    /\ Goto(t, "release")
    /\ UNCHANGED <<shared, holds, torn, lop, session_rest>>

\* get_current_target 337, end_current_chat 383, send_to_current 428.
ReadTarget(t) ==
    /\ At(t, "rt", "read")
    /\ lval' = [lval EXCEPT ![t] = current_target]
    /\ Goto(t, "release")
    /\ UNCHANGED <<shared, holds, torn, lop, session_rest>>

\* open_chat, lines 356 and 359.
OpenRead(t) ==
    /\ At(t, "oc", "read")
    /\ lval' = [lval EXCEPT ![t] = current_target]
    /\ Goto(t, IF OpenChatPushes(current_target, lop[t]) THEN "push"
               ELSE "install")
    /\ UNCHANGED <<shared, holds, torn, lop, session_rest>>

\* open_chat, line 360.
OpenPush(t) ==
    /\ At(t, "oc", "push")
    /\ target_stack' = Append(target_stack, lval[t])
    /\ torn' = t
    /\ Goto(t, "install")
    /\ UNCHANGED <<connected, current_target, holds, lop, lval, session_rest>>

\* open_chat, line 362.
OpenInstall(t) ==
    /\ At(t, "oc", "install")
    /\ current_target' = lop[t]
    /\ torn' = "none"
    /\ Goto(t, "release")
    /\ UNCHANGED <<connected, target_stack, holds, lop, lval, session_rest>>

\* _recv_loop 266 and 271 (303 and 305), end_current_chat 398: the receiver
\* first compares the current target with the sender.
RestoreTest(t) ==
    /\ At(t, "rs", "test")
    /\ Goto(t, IF lop[t] /= None /\ current_target /= lop[t] THEN "release"
               ELSE IF target_stack /= <<>> THEN "pop"
               ELSE "clear")
    /\ UNCHANGED <<shared, holds, torn, lop, lval, session_rest>>

\* _recv_loop 272 (306), end_current_chat 399.
RestorePop(t) ==
    /\ At(t, "rs", "pop")
    /\ lval' = [lval EXCEPT ![t] = Last(target_stack)]
    /\ target_stack' = Front(target_stack)
    /\ torn' = t
    /\ Goto(t, "set")
    /\ UNCHANGED <<connected, current_target, holds, lop, session_rest>>

\* _recv_loop 273 (307), end_current_chat 400.
RestoreSet(t) ==
    /\ At(t, "rs", "set")
    /\ current_target' = lval[t]
    /\ torn' = "none"
    /\ Goto(t, "release")
    /\ UNCHANGED <<connected, target_stack, holds, lop, lval, session_rest>>

\* _recv_loop 278 (311), end_current_chat 403.
RestoreClear(t) ==
    /\ At(t, "rs", "clear")
    /\ current_target' = None
    /\ Goto(t, "release")
    /\ UNCHANGED <<connected, target_stack, holds, torn, lop, lval,
                   session_rest>>

\* _set_disconnected, line 179.
DropFlag(t) ==
    /\ At(t, "sd", "flag")
    /\ connected' = FALSE
    /\ Goto(t, "target")
    /\ UNCHANGED <<current_target, target_stack, holds, torn, lop, lval,
                   session_rest>>

\* _set_disconnected, line 180.
DropTarget(t) ==
    /\ At(t, "sd", "target")
    /\ current_target' = None
    /\ Goto(t, "stack")
    /\ UNCHANGED <<connected, target_stack, holds, torn, lop, lval,
                   session_rest>>

\* _set_disconnected, line 181.
DropStack(t) ==
    /\ At(t, "sd", "stack")
    /\ target_stack' = <<>>
    /\ Goto(t, "release")
    /\ UNCHANGED <<connected, current_target, holds, torn, lop, lval,
                   session_rest>>

\* The socket calls each thread makes: the main thread sendall (_safe_send
\* 198), recv (handshake 123) and close (close 465); the receiver recv
\* (_recv_loop 225).
SockOps(t) == IF t = "main" THEN {"send", "recv", "close"} ELSE {"recv"}

\* Variant: a socket call is also issued from the end of a locked block, before
\* the lock is released.
CanCallSocketInBlock(t) == lpc[t].at \in {"idle", "release"}

\* Where the code calls the socket: between locked blocks, never inside one
\* (119, 123, 225, 393, 436, 455, 465 are all outside `with self._lock:`).
CanCallSocket(t) == lpc[t].at = "idle"

\* A thread reaches a socket call.
SockBegin(t) ==
    /\ CanCallSocket(t)
    /\ IF t = "recv" THEN ConnectDone ELSE lpc[t].op /= "new"
    /\ \E o \in SockOps(t) :
        lpc' = [lpc EXCEPT ![t] = [op |-> o, at |-> "call"]]
    /\ UNCHANGED <<shared, holds, torn, lop, lval, session_rest>>

\* The socket call returns or raises. A failed sendall (_safe_send 200-201),
\* a failed or empty recv (handshake 128, _recv_loop 229 and 235) and every
\* close (470) go on to _set_disconnected.
SockCall(t) ==
    /\ lpc[t].at = "call"
    /\ \E ok \in BOOLEAN :
        lpc' = [lpc EXCEPT ![t] =
                  IF ok /\ lpc[t].op /= "close"
                  THEN [op |-> lpc[t].op, at |-> "idle"]
                  ELSE [op |-> "sd", at |-> "acquire"]]
    /\ UNCHANGED <<shared, holds, torn, lop, lval, session_rest>>

NextLock ==
    \/ \E t \in Threads : LockBegin(t)
    \/ \E t \in Threads : LockAcquire(t)
    \/ \E t \in Threads : LockRelease(t)
    \/ \E t \in Threads : ConnectWrite(t)
    \/ \E t \in Threads : ReadFlag(t)
    \/ \E t \in Threads : ReadTarget(t)
    \/ \E t \in Threads : OpenRead(t)
    \/ \E t \in Threads : OpenPush(t)
    \/ \E t \in Threads : OpenInstall(t)
    \/ \E t \in Threads : RestoreTest(t)
    \/ \E t \in Threads : RestorePop(t)
    \/ \E t \in Threads : RestoreSet(t)
    \/ \E t \in Threads : RestoreClear(t)
    \/ \E t \in Threads : DropFlag(t)
    \/ \E t \in Threads : DropTarget(t)
    \/ \E t \in Threads : DropStack(t)
    \/ \E t \in Threads : SockBegin(t)
    \/ \E t \in Threads : SockCall(t)

\* The two threads running the locked blocks in any order, one statement at
\* a time.
SpecLock == Init /\ [][NextLock]_vars

\* A statement of thread t inside a locked block, or the block's end: none
\* of them waits for anything.
HolderStep(t) ==
    \/ LockRelease(t)
    \/ ConnectWrite(t)
    \/ ReadFlag(t)
    \/ ReadTarget(t)
    \/ OpenRead(t)
    \/ OpenPush(t)
    \/ OpenInstall(t)
    \/ RestoreTest(t)
    \/ RestorePop(t)
    \/ RestoreSet(t)
    \/ RestoreClear(t)
    \/ DropFlag(t)
    \/ DropTarget(t)
    \/ DropStack(t)

\* A thread that is inside a locked block keeps running: the statements
\* there are plain assignments and tests.
FairSpecLock == SpecLock /\ \A t \in Threads : WF_vars(HolderStep(t))

\* The positions inside a locked block: the statements that read or write a
\* shared field.
LockedStatements ==
    {"write", "read", "push", "install", "test", "pop", "set", "clear",
     "flag", "target", "stack"}

\* Thread t executes a statement that reads or writes a shared field.
AccessStep(t) == lpc[t].at \in LockedStatements /\ lpc'[t] /= lpc[t]

\* C20: every statement of either thread that reads or writes the connected
\* flag, the current target or the history stack runs while that thread
\* holds the lock, at most one thread holds the lock at a time, and no
\* thread reads or writes them while the other is between a pop (or push) of
\* the stack and the matching write of the current target.
C20_LockDiscipline ==
    /\ [][\A t \in Threads :
            AccessStep(t) => (t \in holds /\ torn \in {"none", t})]_vars
    /\ [][shared' /= shared => \E t \in holds : AccessStep(t)]_vars
    /\ [](Cardinality(holds) <= 1)
    /\ [](torn /= "none" => torn \in holds)

C20_Witness ==
    /\ holds = {"main"}
    /\ torn = "main"
    /\ At("main", "rs", "set")
    /\ At("recv", "rs", "acquire")
    /\ lop["recv"] = current_target
    /\ target_stack /= <<>>

\* Thread t makes a socket call (sendall, recv or close).
SocketStep(t) == lpc[t].at = "call" /\ lpc'[t] /= lpc[t]

\* Thread t arrives at a `with self._lock:` statement.
AcquireAttempt(t) == lpc[t].at /= "acquire" /\ lpc'[t].at = "acquire"

\* No thread waits for the lock forever: a waiting thread finds the lock
\* free, or held by the other thread at a statement inside its block.
NoLockDeadlock ==
    \A t \in Threads :
        lpc[t].at = "acquire" =>
            \/ LockFree
            \/ \E u \in holds :
                /\ u /= t
                /\ lpc[u].at \in LockedStatements \cup {"release"}

\* C21: no thread makes a socket call (send, receive, close) while it holds
\* the lock, and no thread arrives at a lock acquisition while it holds the
\* lock; so a thread that holds the lock always releases it, and no thread
\* waits for a lock that will not be released.
C21_NoIoUnderLock ==
    /\ [][\A t \in Threads : SocketStep(t) => t \notin holds]_vars
    /\ [][\A t \in Threads : AcquireAttempt(t) => t \notin holds]_vars
    /\ []NoLockDeadlock
    /\ \A t \in Threads : (t \in holds) ~> (t \notin holds)

C21_Witness ==
    /\ At("main", "sd", "acquire")
    /\ holds = {"recv"}
    /\ torn = "recv"
    /\ At("recv", "rs", "set")
    /\ target_stack /= <<>>

\* The receiver thread has been started.
ReceiverStarted == rpc /= "idle"

\* main() is still connecting or in the handshake loop.
BeforeSession ==
    mpc \in {"connect", "ask_name", "handshake", "hs_recv", "start_receiver"}

\* The receiver is started only by main() right after a handshake that
\* returned OK, and never a second time; it is not running while a handshake
\* is in progress, and it is never started when connect failed or handshake
\* returned RETRY or EXIT.
ReceiverStartOrder ==
    /\ [][(~ReceiverStarted /\ ReceiverStarted') =>
            /\ mpc = "start_receiver"
            /\ ret = "OK"
            /\ name /= <<>>
            /\ HandshakeStatus(Strip(Decode(reply_data))) = "OK"
            /\ rpc' = "recv"
            /\ mpc' = "cli_check"]_vars
    /\ [][ReceiverStarted => ReceiverStarted']_vars
    /\ [](ReceiverStarted => (~BeforeSession /\ name /= <<>>))
    /\ []((ret \in {"RETRY", "EXIT", "False"} /\ BeforeSession)
            => ~ReceiverStarted)
    /\ []((mpc = "exited" /\ name = <<>>) => ~ReceiverStarted)

\* The receiver's sock.recv returns bytes.
ReceiverReadStep == rpc = "recv" /\ rpc' = "split"

\* C22: the receiver is started at most once, only after a handshake that
\* returned OK, never after RETRY, EXIT or a failed connect; so the bytes of
\* every handshake reply are read by handshake and none of them is returned
\* by a recv of the receiver.
C22_RepliesReadByHandshake ==
    /\ ReceiverStartOrder
    /\ [][ReceiverReadStep => pending = <<>>]_vars

\* ------------------------------------------ the receiver's line framing on
\* its own: any sequence of chunks, with everything recv returned and every
\* line dispatched recorded.

\* Most bytes the receiver is handed in one run.
MaxStream == 5

\* Chunks sock.recv(1024) can return: part of a line, a whole line, an empty
\* line, blanks, two lines at once, an invalid byte, a two-byte character
\* whole and in its two halves.
FramerChunks ==
    { <<"a">>, <<"b", "\n">>, <<"\n">>, <<" ">>, <<"a", "\n", "b", "\n">>,
      <<BadByte>>, <<LeadByte, ContByte>>, <<LeadByte>>, <<ContByte>> }

\* _recv_loop has just been started (main.py 58) and has not read yet.
InitFramer ==
    /\ connected = TRUE
    /\ current_target = None
    /\ target_stack = <<>>
    /\ name = A
    /\ sock = "open"
    /\ mpc = "cli_check"
    /\ rpc = "recv"
    /\ buffer = <<>>
    /\ line = <<>>
    /\ m_name = A
    /\ target = None
    /\ arg = A
    /\ out = <<HELLO_ \o A \o NL>>
    /\ ret = "OK"
    /\ switches = 0
    /\ pre_open = NoSnap
    /\ pre_end = NoSnap
    /\ pre_recv = NoSnap
    /\ op = "None"
    /\ reply_data = None
    /\ closes = 0
    /\ holds = {}
    /\ torn = "none"
    /\ lpc = [t \in Threads |-> [op |-> "new", at |-> "idle"]]
    /\ lop = [t \in Threads |-> None]
    /\ lval = [t \in Threads |-> None]
    /\ pending = <<>>
    /\ fed = <<>>
    /\ got = <<>>

\* Everything the framing does not touch.
framer_rest ==
    <<shared, lock_state, name, sock, mpc, m_name, target, arg, out, ret,
      switches, pre_open, pre_end, pre_recv, op, reply_data, closes, pending>>

\* _recv_loop 225, 239: recv returns a chunk, decoded onto the buffer.
FramerRecv ==
    /\ rpc = "recv"
    /\ \E data \in FramerChunks :
        /\ Len(fed) + Len(data) <= MaxStream
        /\ buffer' = buffer \o Decode(data)
        /\ fed' = fed \o data
    /\ rpc' = "split"
    /\ UNCHANGED <<line, got, framer_rest>>

\* _recv_loop 242-246.
FramerSplit ==
    /\ rpc = "split"
    /\ SplitStep
    /\ UNCHANGED <<fed, got, framer_rest>>

\* _recv_loop 251-315: the line is handled (here: recorded).
FramerDispatch ==
    /\ rpc = "dispatch"
    /\ got' = Append(got, line)
    /\ line' = <<>>
    /\ rpc' = "split"
    /\ UNCHANGED <<buffer, fed, framer_rest>>

NextFramer == FramerRecv \/ FramerSplit \/ FramerDispatch

SpecFramer == InitFramer /\ [][NextFramer]_vars

\* The trimmed, non-empty newline-terminated segments of a text, in order; a
\* trailing segment without a newline is not one of them.
RECURSIVE SegmentsOf(_)
SegmentsOf(text) ==
    IF \A i \in 1..Len(text) : text[i] /= "\n" THEN <<>>
    ELSE LET i == CHOOSE k \in 1..Len(text) :
                    text[k] = "\n" /\ \A j \in 1..(k - 1) : text[j] /= "\n"
             seg == Strip(SubSeq(text, 1, i - 1))
         IN  (IF seg = <<>> THEN <<>> ELSE <<seg>>)
             \o SegmentsOf(SubSeq(text, i + 1, Len(text)))

IsPrefix(s, t) == Len(s) <= Len(t) /\ SubSeq(t, 1, Len(s)) = s

\* C23: whatever the chunk boundaries, the lines dispatched so far are, in
\* order, segments of the concatenation of the chunks received, and once the
\* receiver is back at recv they are exactly all of them.
C23_FramingIndependentOfChunks ==
    /\ IsPrefix(got, SegmentsOf(Decode(fed)))
    /\ rpc = "recv" => got = SegmentsOf(Decode(fed))

\* The bytes received are all single-byte characters or invalid bytes.
SingleByteStream ==
    \A i \in 1..Len(fed) : fed[i] \notin {LeadByte, ContByte}

\* C23 for streams of single-byte characters: there the framing does not
\* depend on the chunk boundaries.
C23_FramingOfSingleByteText ==
    SingleByteStream =>
        /\ IsPrefix(got, SegmentsOf(Decode(fed)))
        /\ rpc = "recv" => got = SegmentsOf(Decode(fed))

\* run_cli was entered (only after a handshake that returned OK) and has
\* returned.
RunCliTerminated == mpc = "exited" /\ name /= <<>>

\* C24: once run_cli has terminated (quit, failed send or connection loss),
\* whatever the receiver does before or after, the session is not connected,
\* has no current target and an empty history stack, and stays so.
C24_TerminatedSessionIsClosed ==
    /\ [](RunCliTerminated =>
            (~connected /\ current_target = None /\ target_stack = <<>>))
    /\ [][RunCliTerminated =>
            (RunCliTerminated' /\ UNCHANGED <<connected, current_target,
                                              target_stack>>)]_vars
    /\ [][(mpc = "close_state" /\ mpc' = "exited") =>
            (~connected' /\ current_target' = None /\ target_stack' = <<>>)]_vars

C24_Witness ==
    /\ RunCliTerminated
    /\ rpc = "dispatch"
    /\ line = SysEndLine(A)
    /\ closes = 1
    /\ ~connected
    /\ current_target = None
    /\ target_stack = <<>>

====
